---- MODULE Spec2Model ----
(***************************************************************************)
(* Backend execution abstraction of sam-remote-zfs-unlocker:               *)
(*   - the mock backend (common/src/api/mock.rs, ApiMock),                 *)
(*   - the live backend (webserver-lib/src/backend/live.rs) over the       *)
(*     external zfs tool,                                                  *)
(*   - the command execution engine and chain runner                       *)
(*     (webserver-lib/src/backend/command_caller.rs and the older          *)
(*     webserver-lib/src/command_caller.rs + custom_commands.rs).          *)
(***************************************************************************)
EXTENDS Integers, Sequences, FiniteSets, TLC

\* ------------------------------------------------------------------ bounds
\* Dataset names are 1..NumDatasets, passphrases are 1..NumPass.
NumDatasets == 2
NumPass == 2

Names == 1..NumDatasets
Pass == 1..NumPass

VARIABLES
    backend,    \* which variant of the capability interface is in use: "mock" | "live"
    inner,      \* ApiMockInner: [state: name -> MockDatasetDetails, erring_datasets: set]
    zfs,        \* the external zfs tool's datasets: name -> [key_loaded, is_mounted, passphrase]
    config,     \* ApiServerConfig.zfs_config: [zfs_enabled, blacklisted_zfs_datasets]
    call,       \* the last completed backend call: arguments, result, tool invocations
    pre,        \* inner (mock) or zfs (live) as it was when the last call began
    custom_commands, \* ApiServerConfig.custom_commands_config.custom_commands
    custom_commands_routables, \* LiveExecutionBackend's registry: endpoint -> RoutableCommand
    tasks,      \* concurrent callers: the call each one makes and how far it got
    impl,       \* which run_command is linked: "backend" (backend/command_caller.rs,
                \* concurrent drain) | "legacy" (command_caller.rs, sequential drain)
    commands,   \* chain_commands' argument: the chain, a sequence of argv
    initial_stdin, \* chain_commands' argument: Option<String>
    chain,      \* chain_commands' frame: pc, index in the loop, current_stdin, result, ret
    rc,         \* run_command's frame: pc, bytes still to write, stdin handle, captured strings
    child,      \* the spawned child process and its three pipes
    inv         \* per invocation of the chain: the stdin it was given and how far it got

bvars == <<backend, inner, zfs, config, call, pre,
           custom_commands, custom_commands_routables, tasks>>
pvars == <<impl, commands, initial_stdin, chain, rc, child, inv>>
vars == <<bvars, pvars>>

\* ------------------------------------------------------------- result types
Res(kind, flag) == [kind |-> kind, flag |-> flag]

NoCall == [op |-> "none", dataset_name |-> 0, password |-> 0,
           res |-> Res("none", FALSE), tool |-> <<>>]

Call(op, dataset_name, password, res, tool) ==
    [op |-> op, dataset_name |-> dataset_name, password |-> password,
     res |-> res, tool |-> tool]

\* ------------------------------------------------------------ mock backend
\* ApiMock::new: every dataset starts with key_loaded = false, is_mounted = false.
MockDatasetDetails(password) ==
    [key_loaded |-> FALSE, is_mounted |-> FALSE, unlock_password |-> password]

ApiMockNew(dataset_names_and_password, erring_datasets) ==
    [state |-> [n \in DOMAIN dataset_names_and_password |->
                    MockDatasetDetails(dataset_names_and_password[n])],
     erring_datasets |-> erring_datasets]

\* Each operation returns the new ApiMockInner and the Result it yields.
MockOut(in, res) == [inner |-> in, res |-> res]

\* load_key that would accept any passphrase.
MockLoadKeyNoPasswordCheck(in, dataset_name, password) ==
    IF dataset_name \in in.erring_datasets
    THEN MockOut(in, Res("SimulatedError", FALSE))
    ELSE IF dataset_name \notin DOMAIN in.state
    THEN MockOut(in, Res("DatasetNotFound", FALSE))
    ELSE MockOut([in EXCEPT !.state[dataset_name].key_loaded = TRUE],
                 Res("KeyLoadedResponse", TRUE))

\* ApiMock::load_key.
MockLoadKey(in, dataset_name, password) ==
    IF dataset_name \in in.erring_datasets
    THEN MockOut(in, Res("SimulatedError", FALSE))
    ELSE IF dataset_name \notin DOMAIN in.state
    THEN MockOut(in, Res("DatasetNotFound", FALSE))
    ELSE IF password = in.state[dataset_name].unlock_password
    THEN MockOut([in EXCEPT !.state[dataset_name].key_loaded = TRUE],
                 Res("KeyLoadedResponse", TRUE))
    ELSE MockOut(in, Res("InvalidEncryptionPassword", FALSE))

\* ApiMock::mount_dataset: no look at key_loaded.
MockMountDataset(in, dataset_name) ==
    IF dataset_name \in in.erring_datasets
    THEN MockOut(in, Res("SimulatedError", FALSE))
    ELSE IF dataset_name \notin DOMAIN in.state
    THEN MockOut(in, Res("DatasetNotFound", FALSE))
    ELSE MockOut([in EXCEPT !.state[dataset_name].is_mounted = TRUE],
                 Res("DatasetMountedResponse", TRUE))

\* unload_key that would drop the key of a mounted dataset.
MockUnloadKeyNoBusyCheck(in, dataset_name) ==
    IF dataset_name \in in.erring_datasets
    THEN MockOut(in, Res("SimulatedError", FALSE))
    ELSE IF dataset_name \notin DOMAIN in.state
    THEN MockOut(in, Res("DatasetNotFound", FALSE))
    ELSE MockOut([in EXCEPT !.state[dataset_name].key_loaded = FALSE],
                 Res("KeyLoadedResponse", FALSE))

\* ApiMock::unload_key.
MockUnloadKey(in, dataset_name) ==
    IF dataset_name \in in.erring_datasets
    THEN MockOut(in, Res("SimulatedError", FALSE))
    ELSE IF dataset_name \notin DOMAIN in.state
    THEN MockOut(in, Res("DatasetNotFound", FALSE))
    ELSE IF ~in.state[dataset_name].is_mounted
    THEN MockOut([in EXCEPT !.state[dataset_name].key_loaded = FALSE],
                 Res("KeyLoadedResponse", FALSE))
    ELSE MockOut(in, Res("CannotUnlockKeyForMountDataset", FALSE))

\* unmount_dataset that would not inject the fault.
MockUnmountDatasetNoFault(in, dataset_name) ==
    IF dataset_name \notin DOMAIN in.state
    THEN MockOut(in, Res("DatasetNotFound", FALSE))
    ELSE MockOut([in EXCEPT !.state[dataset_name].is_mounted = FALSE],
                 Res("DatasetMountedResponse", FALSE))

\* ApiMock::unmount_dataset.
MockUnmountDataset(in, dataset_name) ==
    IF dataset_name \in in.erring_datasets
    THEN MockOut(in, Res("SimulatedError", FALSE))
    ELSE IF dataset_name \notin DOMAIN in.state
    THEN MockOut(in, Res("DatasetNotFound", FALSE))
    ELSE MockOut([in EXCEPT !.state[dataset_name].is_mounted = FALSE],
                 Res("DatasetMountedResponse", FALSE))

\* encrypted_dataset_state: read-only; the flag reports key_loaded of the dataset.
MockEncryptedDatasetState(in, dataset_name) ==
    IF dataset_name \in in.erring_datasets
    THEN MockOut(in, Res("SimulatedError", FALSE))
    ELSE IF dataset_name \notin DOMAIN in.state
    THEN MockOut(in, Res("DatasetNotFound", FALSE))
    ELSE MockOut(in, Res("DatasetFullMountState", in.state[dataset_name].key_loaded))

\* The mutex is taken after the sleep and held to the end of the operation, with
\* no suspension point inside: each operation is one atomic step on inner.
MockStep(op, dataset_name, password, out) ==
    /\ backend = "mock"
    /\ pre' = inner
    /\ inner' = out.inner
    /\ call' = Call(op, dataset_name, password, out.res, <<>>)
    /\ UNCHANGED <<backend, zfs, config, custom_commands, custom_commands_routables,
                   tasks>>
    /\ UNCHANGED pvars

MockLoadKeyCall ==
    \E n \in Names, p \in Pass : MockStep("load_key", n, p, MockLoadKey(inner, n, p))

MockMountDatasetCall ==
    \E n \in Names : MockStep("mount_dataset", n, 0, MockMountDataset(inner, n))

MockUnloadKeyCall ==
    \E n \in Names : MockStep("unload_key", n, 0, MockUnloadKey(inner, n))

MockUnmountDatasetCall ==
    \E n \in Names : MockStep("unmount_dataset", n, 0, MockUnmountDataset(inner, n))

MockEncryptedDatasetStateCall ==
    \E n \in Names :
        MockStep("encrypted_dataset_state", n, 0, MockEncryptedDatasetState(inner, n))

\* ------------------------------------------------------------ live backend
\* The external zfs tool (crate sam_zfs_unlocker), seen through the calls the
\* backend makes.  The tool's status queries are taken to answer (their Err
\* branch, the tool itself not running, is outside the model); its two
\* mutating commands may fail.  A status query answers from the tool's state with an
\* Option<bool>: None (<<>>) for a dataset the tool does not know, else Some
\* (<<flag>>).
zfs_is_key_loaded(z, dataset_name) ==
    IF dataset_name \in DOMAIN z THEN <<z[dataset_name].key_loaded>> ELSE <<>>

zfs_is_dataset_mounted(z, dataset_name) ==
    IF dataset_name \in DOMAIN z THEN <<z[dataset_name].is_mounted>> ELSE <<>>

\* zfs load-key: loads the key when the passphrase is the dataset's and the tool
\* itself does not fail (tool_ok); the tool's state is unchanged otherwise.
zfs_load_key(z, dataset_name, passphrase, tool_ok) ==
    IF tool_ok /\ passphrase = z[dataset_name].passphrase
    THEN [ok |-> TRUE, zfs |-> [z EXCEPT ![dataset_name].key_loaded = TRUE]]
    ELSE [ok |-> FALSE, zfs |-> z]

\* zfs mount: mounts a dataset whose key is loaded, unless the tool fails.
zfs_mount_dataset(z, dataset_name, tool_ok) ==
    IF tool_ok /\ z[dataset_name].key_loaded
    THEN [ok |-> TRUE, zfs |-> [z EXCEPT ![dataset_name].is_mounted = TRUE]]
    ELSE [ok |-> FALSE, zfs |-> z]

zfs_enabled(cfg) == cfg.zfs_enabled

zfs_dataset_blacklisted(cfg, dataset_name) ==
    dataset_name \in cfg.blacklisted_zfs_datasets

LiveOut(z, res, tool) == [zfs |-> z, res |-> res, tool |-> tool]

\* zfs_load_key that would not look at the blacklist.
LiveLoadKeyNoBlacklist(cfg, z, dataset_name, passphrase, tool_ok) ==
    IF ~zfs_enabled(cfg)
    THEN LiveOut(z, Res("ZfsDisabled", FALSE), <<>>)
    ELSE IF zfs_is_key_loaded(z, dataset_name) = <<>>
    THEN LiveOut(z, Res("DatasetNotFound", FALSE), <<"zfs_is_key_loaded">>)
    ELSE IF zfs_is_key_loaded(z, dataset_name)[1]
    THEN LiveOut(z, Res("KeyLoadedResponse", TRUE), <<"zfs_is_key_loaded">>)
    ELSE LET r == zfs_load_key(z, dataset_name, passphrase, tool_ok)
         IN  LiveOut(r.zfs,
                     IF r.ok THEN Res("KeyLoadedResponse", TRUE) ELSE Res("Zfs", FALSE),
                     <<"zfs_is_key_loaded", "zfs_load_key">>)

\* LiveExecutionBackend::zfs_load_key; the last component lists the tool calls made.
LiveLoadKey(cfg, z, dataset_name, passphrase, tool_ok) ==
    IF ~zfs_enabled(cfg)
    THEN LiveOut(z, Res("ZfsDisabled", FALSE), <<>>)
    ELSE IF zfs_dataset_blacklisted(cfg, dataset_name)
    THEN LiveOut(z, Res("BlacklistedDataset", FALSE), <<>>)
    ELSE IF zfs_is_key_loaded(z, dataset_name) = <<>>
    THEN LiveOut(z, Res("DatasetNotFound", FALSE), <<"zfs_is_key_loaded">>)
    ELSE IF zfs_is_key_loaded(z, dataset_name)[1]
    THEN LiveOut(z, Res("KeyLoadedResponse", TRUE), <<"zfs_is_key_loaded">>)
    ELSE LET r == zfs_load_key(z, dataset_name, passphrase, tool_ok)
         IN  LiveOut(r.zfs,
                     IF r.ok THEN Res("KeyLoadedResponse", TRUE) ELSE Res("Zfs", FALSE),
                     <<"zfs_is_key_loaded", "zfs_load_key">>)

\* zfs_mount_dataset that would skip the already-mounted early return.
LiveMountDatasetNoMountedCheck(cfg, z, dataset_name, tool_ok) ==
    IF ~zfs_enabled(cfg)
    THEN LiveOut(z, Res("ZfsDisabled", FALSE), <<>>)
    ELSE IF zfs_dataset_blacklisted(cfg, dataset_name)
    THEN LiveOut(z, Res("BlacklistedDataset", FALSE), <<>>)
    ELSE IF zfs_is_key_loaded(z, dataset_name) = <<>>
    THEN LiveOut(z, Res("DatasetNotFound", FALSE), <<"zfs_is_key_loaded">>)
    ELSE IF ~zfs_is_key_loaded(z, dataset_name)[1]
    THEN LiveOut(z, Res("KeyNotLoadedForDataset", FALSE), <<"zfs_is_key_loaded">>)
    ELSE LET r == zfs_mount_dataset(z, dataset_name, tool_ok)
         IN  LiveOut(r.zfs,
                     IF r.ok THEN Res("DatasetMountedResponse", TRUE)
                             ELSE Res("Zfs", FALSE),
                     <<"zfs_is_key_loaded", "zfs_mount_dataset">>)

\* LiveExecutionBackend::zfs_mount_dataset.
LiveMountDataset(cfg, z, dataset_name, tool_ok) ==
    IF ~zfs_enabled(cfg)
    THEN LiveOut(z, Res("ZfsDisabled", FALSE), <<>>)
    ELSE IF zfs_dataset_blacklisted(cfg, dataset_name)
    THEN LiveOut(z, Res("BlacklistedDataset", FALSE), <<>>)
    ELSE IF zfs_is_dataset_mounted(z, dataset_name) = <<>>
    THEN LiveOut(z, Res("DatasetNotFound", FALSE), <<"zfs_is_dataset_mounted">>)
    ELSE IF zfs_is_dataset_mounted(z, dataset_name)[1]
    THEN LiveOut(z, Res("DatasetMountedResponse", TRUE), <<"zfs_is_dataset_mounted">>)
    ELSE IF ~zfs_is_key_loaded(z, dataset_name)[1]
    THEN LiveOut(z, Res("KeyNotLoadedForDataset", FALSE),
                 <<"zfs_is_dataset_mounted", "zfs_is_key_loaded">>)
    ELSE LET r == zfs_mount_dataset(z, dataset_name, tool_ok)
         IN  LiveOut(r.zfs,
                     IF r.ok THEN Res("DatasetMountedResponse", TRUE)
                             ELSE Res("Zfs", FALSE),
                     <<"zfs_is_dataset_mounted", "zfs_is_key_loaded",
                       "zfs_mount_dataset">>)

\* A listing that would not look at the disable switch.
InternalGetEncryptedDatasetsStateAlways(cfg, z) ==
    {n \in DOMAIN z : ~zfs_dataset_blacklisted(cfg, n)}

\* internal_get_encrypted_datasets_state: the tool's list without the
\* blacklisted names, or the empty map when zfs is disabled.
InternalGetEncryptedDatasetsState(cfg, z) ==
    IF ~zfs_enabled(cfg) THEN {}
    ELSE {n \in DOMAIN z : ~zfs_dataset_blacklisted(cfg, n)}

\* zfs_encrypted_dataset_state: read-only; the flag reports key_loaded.
LiveEncryptedDatasetState(cfg, z, dataset_name) ==
    LET tool == IF zfs_enabled(cfg) THEN <<"zfs_list_encrypted_datasets">> ELSE <<>>
    IN  IF dataset_name \in InternalGetEncryptedDatasetsState(cfg, z)
        THEN LiveOut(z, Res("DatasetFullMountState", z[dataset_name].key_loaded), tool)
        ELSE LiveOut(z, Res("DatasetNotFound", FALSE), tool)

\* zfs_encrypted_datasets_state: the states of all the datasets listed.
LiveEncryptedDatasetsState(cfg, z) ==
    [states |-> [n \in InternalGetEncryptedDatasetsState(cfg, z) |->
                    [key_loaded |-> z[n].key_loaded, is_mounted |-> z[n].is_mounted]],
     tool |-> IF zfs_enabled(cfg) THEN <<"zfs_list_encrypted_datasets">> ELSE <<>>]

\* The record of a completed zfs_encrypted_datasets_state call.
ListCall(states, tool) ==
    [op |-> "encrypted_datasets_state", dataset_name |-> 0, password |-> 0,
     res |-> Res("DatasetsFullMountState", TRUE), tool |-> tool, states |-> states]

LiveStep(op, dataset_name, password, out) ==
    /\ backend = "live"
    /\ pre' = zfs
    /\ zfs' = out.zfs
    /\ call' = Call(op, dataset_name, password, out.res, out.tool)
    /\ UNCHANGED <<backend, inner, config, custom_commands, custom_commands_routables,
                   tasks>>
    /\ UNCHANGED pvars

LiveLoadKeyCall ==
    \E n \in Names, p \in Pass, tool_ok \in BOOLEAN :
        LiveStep("load_key", n, p, LiveLoadKey(config, zfs, n, p, tool_ok))

LiveMountDatasetCall ==
    \E n \in Names, tool_ok \in BOOLEAN :
        LiveStep("mount_dataset", n, 0, LiveMountDataset(config, zfs, n, tool_ok))

LiveEncryptedDatasetStateCall ==
    \E n \in Names :
        LiveStep("encrypted_dataset_state", n, 0,
                 LiveEncryptedDatasetState(config, zfs, n))

LiveEncryptedDatasetsStateCall ==
    /\ backend = "live"
    /\ pre' = zfs
    /\ LET out == LiveEncryptedDatasetsState(config, zfs)
       IN  call' = ListCall(out.states, out.tool)
    /\ UNCHANGED <<backend, inner, zfs, config, custom_commands,
                   custom_commands_routables, tasks>>
    /\ UNCHANGED pvars

\* ------------------------------------------------ command execution engine
\* A chain holds at most MaxChain argv, a child runs a script of at most
\* MaxProg steps, the caller's stdin text has at most MaxStdin bytes and an OS
\* pipe buffers at most PipeCap bytes.
MaxChain == 2
MaxProg == 2
MaxStdin == 2
PipeCap == 1

\* chain_commands' codes and run_command's code for a child without exit code.
SpawnErrorCode == 253
PlaceholderCode == 254
SignalCode == 255

None == <<>>
Some(x) == <<x>>

Min(a, b) == IF a < b THEN a ELSE b
Take(s, k) == SubSeq(s, 1, k)
Drop(s, k) == SubSeq(s, k + 1, Len(s))

\* Caller-supplied stdin texts, argv, child scripts and exit statuses.
Texts == {[i \in 1..n |-> "a"] : n \in 0..MaxStdin}
Argvs == {<<>>, <<"prog">>}
Chains == UNION {[1..n -> Argvs] : n \in 0..MaxChain}

\* A child is a script of steps followed by its exit: "o" writes a byte to
\* stdout, "e" writes a byte to stderr, "c" copies stdin to stdout until
\* end-of-input.  Its ExitStatus::code() is Some(0), Some(7), Some(253) (a
\* child is free to exit with the code chain_commands uses) or None (killed
\* by a signal).
Ops == {"o", "e", "c"}
Progs == UNION {[1..n -> Ops] : n \in 0..MaxProg}
ExitStatuses == {Some(0), Some(7), Some(SpawnErrorCode), None}

RunCommandOutput(stdout, stderr, error_code) ==
    [stdout |-> stdout, stderr |-> stderr, error_code |-> error_code]

\* Result<RunCommandOutput, CommandError> of run_command.
RcOk(out) == [kind |-> "Ok", out |-> out, err |-> "none"]
RcErr(e) == [kind |-> "Err", out |-> RunCommandOutput(<<>>, <<>>, 0), err |-> e]
RcPending == [kind |-> "pending", out |-> RunCommandOutput(<<>>, <<>>, 0), err |-> "none"]

\* Result<RunCommandOutput, Error> of chain_commands.
ChainOk(out) == [kind |-> "Ok", out |-> out]
ChainErr(e) == [kind |-> e, out |-> RunCommandOutput(<<>>, <<>>, 0)]

\* script is the program the child was spawned to run, prog what is left of it.
NoChild ==
    [state |-> "none", script |-> <<>>, prog |-> <<>>, status |-> None,
     buf |-> <<>>, pin |-> <<>>, pout |-> <<>>, perr |-> <<>>]

NoRc ==
    [pc |-> "idle", wbuf |-> <<>>, written |-> <<>>, stdin_open |-> FALSE,
     stdout_string |-> <<>>, stderr_string |-> <<>>,
     out_eof |-> FALSE, err_eof |-> FALSE]

NoChain ==
    [pc |-> "start", idx |-> 0, current_stdin |-> None,
     result |-> RunCommandOutput(<<>>, <<>>, 0), ret |-> None]

NoProcess ==
    /\ impl = "none"
    /\ commands = <<>>
    /\ initial_stdin = None
    /\ chain = [NoChain EXCEPT !.pc = "none"]
    /\ rc = NoRc
    /\ child = NoChild
    /\ inv = <<>>

\* One entry of inv: the stdin text run_command was called with, whether the
\* process was spawned, how far its capture got, and run_command's result.
Invocation(stdin, spawned, res) ==
    [stdin |-> stdin, spawned |-> spawned, out_eof |-> FALSE, err_eof |-> FALSE,
     collected |-> FALSE, res |-> res]

\* writeln!(writer, "{}", stdin_string): the text and one newline.
StdinData(stdin_string) == stdin_string \o <<"nl">>

\* status.success() and the error_code recorded for the exit status.
Success(status) == status = Some(0)

\* A code that would report 0 for a child without exit code.
ErrorCodeUnwrapZero(status) == IF status = None THEN 0 ELSE status[1]

ErrorCode(status) ==
    IF Success(status)
    THEN (IF status = None THEN 0 ELSE status[1])
    ELSE (IF status = None THEN SignalCode ELSE status[1])

\* The run_command frame once the stdin text is written (or there is none):
\* the backend's run_command drops child_stdin before draining, the legacy one
\* keeps child.stdin until child.wait() closes it.
StdinDone(i, frame) ==
    [frame EXCEPT !.pc = "drain", !.stdin_open = (i = "legacy")]

RcBegin(i, stdin) ==
    IF stdin = None
    THEN StdinDone(i, [NoRc EXCEPT !.stdin_open = TRUE])
    ELSE [NoRc EXCEPT !.pc = "write", !.wbuf = StdinData(stdin[1]),
                      !.stdin_open = TRUE]

\* Whether the read of stderr is polled: the backend's run_command joins both
\* reads (try_join!), the legacy one awaits stdout's end-of-stream first.
StderrPolled(i, out_eof) == i = "backend" \/ out_eof

\* try_join! (or the two awaits) is over when both reads reached end-of-stream;
\* child.wait() follows and closes any stdin handle still held.
\* A drain that would not wait for stderr.
DrainedNoStderr(out_eof, err_eof) == out_eof

Drained(out_eof, err_eof) == out_eof /\ err_eof

AfterRead(frame) ==
    IF Drained(frame.out_eof, frame.err_eof)
    THEN [frame EXCEPT !.pc = "wait", !.stdin_open = FALSE]
    ELSE frame

\* The body of chain_commands' loop after run_command returned r for command
\* ch.idx of n: the chain's frame afterwards.
Returned(ch, out) == [ch EXCEPT !.pc = "done", !.ret = Some(ChainOk(out))]

\* A loop body that would not break on a non-zero code.
ChainAfterNoBreak(ch, n, r) ==
    IF r.kind = "Err"
    THEN Returned(ch, RunCommandOutput(<<>>, <<r.err>>, SpawnErrorCode))
    ELSE IF ch.idx = n
    THEN Returned([ch EXCEPT !.result = r.out,
                             !.current_stdin = Some(r.out.stdout)], r.out)
    ELSE [ch EXCEPT !.result = r.out, !.current_stdin = Some(r.out.stdout),
                    !.idx = ch.idx + 1, !.pc = "call"]

\* A loop body that would keep feeding the caller's stdin.
ChainAfterKeepStdin(ch, n, r) ==
    IF r.kind = "Err"
    THEN Returned(ch, RunCommandOutput(<<>>, <<r.err>>, SpawnErrorCode))
    ELSE IF r.out.error_code # 0
    THEN Returned([ch EXCEPT !.result = r.out], r.out)
    ELSE IF ch.idx = n
    THEN Returned([ch EXCEPT !.result = r.out], r.out)
    ELSE [ch EXCEPT !.result = r.out, !.idx = ch.idx + 1, !.pc = "call"]

\* A loop body that would return the result it held before the call.
ChainAfterStaleResult(ch, n, r) ==
    IF r.kind = "Err"
    THEN Returned(ch, RunCommandOutput(<<>>, <<r.err>>, SpawnErrorCode))
    ELSE IF r.out.error_code # 0
    THEN Returned([ch EXCEPT !.result = r.out], r.out)
    ELSE IF ch.idx = n
    THEN Returned(ch, ch.result)
    ELSE [ch EXCEPT !.result = r.out, !.current_stdin = Some(r.out.stdout),
                    !.idx = ch.idx + 1, !.pc = "call"]

ChainAfter(ch, n, r) ==
    IF r.kind = "Err"
    THEN Returned(ch, RunCommandOutput(<<>>, <<r.err>>, SpawnErrorCode))
    ELSE IF r.out.error_code # 0
    THEN Returned([ch EXCEPT !.result = r.out], r.out)
    ELSE IF ch.idx = n
    THEN Returned([ch EXCEPT !.result = r.out,
                             !.current_stdin = Some(r.out.stdout)], r.out)
    ELSE [ch EXCEPT !.result = r.out, !.current_stdin = Some(r.out.stdout),
                    !.idx = ch.idx + 1, !.pc = "call"]

\* run_command returns r to chain_commands: the child handle and the pipes are
\* dropped, the invocation's entry records how far the capture got.
RcReturn(r, collected) ==
    /\ chain' = ChainAfter(chain, Len(commands), r)
    /\ inv' = [inv EXCEPT ![Len(inv)] =
                  [@ EXCEPT !.out_eof = rc.out_eof, !.err_eof = rc.err_eof,
                            !.collected = collected, !.res = r]]
    /\ rc' = NoRc
    /\ child' = NoChild

\* chain_commands, up to the loop.
ChainStart ==
    /\ chain.pc = "start"
    /\ chain' = IF commands = <<>>
                THEN [chain EXCEPT !.pc = "done",
                                   !.ret = Some(ChainErr("NoCommandsProvided"))]
                ELSE [chain EXCEPT !.pc = "call", !.idx = 1,
                          !.current_stdin = initial_stdin,
                          !.result = RunCommandOutput(<<>>, <<>>, PlaceholderCode)]
    /\ UNCHANGED <<impl, commands, initial_stdin, rc, child, inv>>
    /\ UNCHANGED bvars

\* run_command on an empty argv: split_first fails, nothing is spawned.
RcEmptyCommand ==
    /\ chain.pc = "call"
    /\ commands[chain.idx] = <<>>
    /\ chain' = ChainAfter(chain, Len(commands), RcErr("EmptyCommand"))
    /\ inv' = Append(inv, Invocation(chain.current_stdin, FALSE, RcErr("EmptyCommand")))
    /\ UNCHANGED <<impl, commands, initial_stdin, rc, child>>
    /\ UNCHANGED bvars

\* spawn() fails (program not found, ...).
RcSpawnFails ==
    /\ chain.pc = "call"
    /\ commands[chain.idx] # <<>>
    /\ chain' = ChainAfter(chain, Len(commands), RcErr("CallFailed"))
    /\ inv' = Append(inv, Invocation(chain.current_stdin, FALSE, RcErr("CallFailed")))
    /\ UNCHANGED <<impl, commands, initial_stdin, rc, child>>
    /\ UNCHANGED bvars

\* spawn() succeeds: a child with three fresh pipes; run_command goes on to the
\* stdin text, if any.
RcSpawn ==
    /\ chain.pc = "call"
    /\ commands[chain.idx] # <<>>
    /\ \E prog \in Progs, status \in ExitStatuses :
           child' = [NoChild EXCEPT !.state = "running", !.script = prog,
                                    !.prog = prog, !.status = status]
    /\ rc' = RcBegin(impl, chain.current_stdin)
    /\ chain' = [chain EXCEPT !.pc = "running"]
    /\ inv' = Append(inv, Invocation(chain.current_stdin, TRUE, RcPending))
    /\ UNCHANGED <<impl, commands, initial_stdin>>
    /\ UNCHANGED bvars

\* write_all + flush of the stdin data: as many bytes as the pipe takes; the
\* await suspends while the pipe is full.
RcWriteStdin ==
    /\ rc.pc = "write"
    /\ child.state = "running"
    /\ Len(child.pin) < PipeCap
    /\ LET k == Min(PipeCap - Len(child.pin), Len(rc.wbuf))
           frame == [rc EXCEPT !.wbuf = Drop(rc.wbuf, k),
                               !.written = rc.written \o Take(rc.wbuf, k)]
       IN  /\ child' = [child EXCEPT !.pin = child.pin \o Take(rc.wbuf, k)]
           /\ rc' = IF frame.wbuf = <<>> THEN StdinDone(impl, frame) ELSE frame
    /\ UNCHANGED <<impl, commands, initial_stdin, chain, inv>>
    /\ UNCHANGED bvars

\* The write fails with a broken pipe when the child is gone: SystemError.
RcWriteStdinFails ==
    /\ rc.pc = "write"
    /\ child.state = "exited"
    /\ RcReturn(RcErr("SystemError"), FALSE)
    /\ UNCHANGED <<impl, commands, initial_stdin>>
    /\ UNCHANGED bvars

\* read_to_string on stdout: takes what the pipe holds, or sees end-of-stream
\* once the pipe is empty and the child's end is closed.  The bytes are taken
\* to be valid UTF-8.
RcReadStdout ==
    /\ rc.pc = "drain"
    /\ ~rc.out_eof
    /\ \/ /\ child.pout # <<>>
          /\ rc' = [rc EXCEPT !.stdout_string = rc.stdout_string \o child.pout]
          /\ child' = [child EXCEPT !.pout = <<>>]
       \/ /\ child.pout = <<>>
          /\ child.state = "exited"
          /\ rc' = AfterRead([rc EXCEPT !.out_eof = TRUE])
          /\ UNCHANGED child
    /\ UNCHANGED <<impl, commands, initial_stdin, chain, inv>>
    /\ UNCHANGED bvars

\* read_to_string on stderr.
RcReadStderr ==
    /\ rc.pc = "drain"
    /\ ~rc.err_eof
    /\ StderrPolled(impl, rc.out_eof)
    /\ \/ /\ child.perr # <<>>
          /\ rc' = [rc EXCEPT !.stderr_string = rc.stderr_string \o child.perr]
          /\ child' = [child EXCEPT !.perr = <<>>]
       \/ /\ child.perr = <<>>
          /\ child.state = "exited"
          /\ rc' = AfterRead([rc EXCEPT !.err_eof = TRUE])
          /\ UNCHANGED child
    /\ UNCHANGED <<impl, commands, initial_stdin, chain, inv>>
    /\ UNCHANGED bvars

\* child.wait() completes: the exit status is collected and run_command
\* returns the captured output.
RcWait ==
    /\ rc.pc = "wait"
    /\ child.state = "exited"
    /\ RcReturn(RcOk(RunCommandOutput(rc.stdout_string, rc.stderr_string,
                                      ErrorCode(child.status))), TRUE)
    /\ UNCHANGED <<impl, commands, initial_stdin>>
    /\ UNCHANGED bvars

\* ------------------------------------------------------- the child process
ChildStep(c) ==
    /\ child.state = "running"
    /\ child' = c
    /\ UNCHANGED <<impl, commands, initial_stdin, chain, rc, inv>>
    /\ UNCHANGED bvars

NextOp == IF child.prog = <<>> THEN "exit" ELSE Head(child.prog)

ChildWriteStdout ==
    /\ NextOp = "o"
    /\ Len(child.pout) < PipeCap
    /\ ChildStep([child EXCEPT !.pout = Append(child.pout, "o"),
                               !.prog = Tail(child.prog)])

ChildWriteStderr ==
    /\ NextOp = "e"
    /\ Len(child.perr) < PipeCap
    /\ ChildStep([child EXCEPT !.perr = Append(child.perr, "e"),
                               !.prog = Tail(child.prog)])

\* cat: write the byte held, else read one, else finish at end-of-input (the
\* pipe is empty and the parent has closed its end).
ChildCat ==
    /\ NextOp = "c"
    /\ \/ /\ child.buf # <<>>
          /\ Len(child.pout) < PipeCap
          /\ ChildStep([child EXCEPT !.pout = child.pout \o child.buf, !.buf = <<>>])
       \/ /\ child.buf = <<>>
          /\ child.pin # <<>>
          /\ ChildStep([child EXCEPT !.buf = <<Head(child.pin)>>,
                                     !.pin = Tail(child.pin)])
       \/ /\ child.buf = <<>>
          /\ child.pin = <<>>
          /\ ~rc.stdin_open
          /\ ChildStep([child EXCEPT !.prog = Tail(child.prog)])

\* The child exits (or is killed): all its pipe ends are closed.
ChildExit ==
    /\ NextOp = "exit"
    /\ ChildStep([child EXCEPT !.state = "exited"])

\* --------------------------------------------------- backend specification
\* ApiAny / ExecutionBackend: one of the two variants is constructed at startup.
PartialFns(D, R) == UNION {[S -> R] : S \in SUBSET D}

\* What the zfs tool can report for a dataset: it never mounts without the key.
ZfsDatasetStates ==
    {d \in [key_loaded : BOOLEAN, is_mounted : BOOLEAN, passphrase : Pass] :
        d.is_mounted => d.key_loaded}

NoMock == ApiMockNew(<<>>, {})
NoZfs == <<>>
NoConfig == [zfs_enabled |-> FALSE, blacklisted_zfs_datasets |-> {}]

InitMock ==
    /\ backend = "mock"
    /\ \E dp \in PartialFns(Names, Pass), erring \in SUBSET Names :
           inner = ApiMockNew(dp, erring)
    /\ zfs = NoZfs
    /\ config = NoConfig

InitLive ==
    /\ backend = "live"
    /\ inner = NoMock
    /\ zfs \in PartialFns(Names, ZfsDatasetStates)
    /\ config \in [zfs_enabled : BOOLEAN, blacklisted_zfs_datasets : SUBSET Names]

InitBackend ==
    /\ InitMock \/ InitLive
    /\ call = NoCall
    /\ pre = <<>>
    /\ custom_commands = <<>>
    /\ custom_commands_routables = <<>>
    /\ tasks = <<>>
    /\ NoProcess

NextBackend ==
    \/ MockLoadKeyCall
    \/ MockMountDatasetCall
    \/ MockUnloadKeyCall
    \/ MockUnmountDatasetCall
    \/ MockEncryptedDatasetStateCall
    \/ LiveLoadKeyCall
    \/ LiveMountDatasetCall
    \/ LiveEncryptedDatasetStateCall
    \/ LiveEncryptedDatasetsStateCall

SpecBackend == InitBackend /\ [][NextBackend]_vars

\* ----------------------------------------------------- chain specification
NoBackend ==
    /\ backend = "none"
    /\ inner = NoMock
    /\ zfs = NoZfs
    /\ config = NoConfig
    /\ call = NoCall
    /\ pre = <<>>
    /\ custom_commands = <<>>
    /\ custom_commands_routables = <<>>
    /\ tasks = <<>>

InitChain ==
    /\ NoBackend
    /\ impl \in {"backend", "legacy"}
    /\ commands \in Chains
    /\ initial_stdin \in {None} \cup {Some(t) : t \in Texts}
    /\ chain = NoChain
    /\ rc = NoRc
    /\ child = NoChild
    /\ inv = <<>>

NextChain ==
    \/ ChainStart
    \/ RcEmptyCommand
    \/ RcSpawnFails
    \/ RcSpawn
    \/ RcWriteStdin
    \/ RcWriteStdinFails
    \/ RcReadStdout
    \/ RcReadStderr
    \/ RcWait
    \/ ChildWriteStdout
    \/ ChildWriteStderr
    \/ ChildCat
    \/ ChildExit

SpecChain == InitChain /\ [][NextChain]_vars

\* ------------------------------------------------ custom command registry
\* Strings are sequences of characters.  A configuration file holds at most
\* MaxCommands command definitions.
MaxCommands == 2

Labels == {<<"m">>}
UrlEndpoints == {<<"e">>}

\* SingleOrChainedCommands: one argv, or a chain of argv.
Single(cmd) == [tag |-> "Single", cmd |-> cmd, cmds |-> <<>>]
Chained(cmds) == [tag |-> "Chained", cmd |-> <<>>, cmds |-> cmds]

\* The run_cmd values of the configuration files considered: empty argv, one
\* token, two tokens, one token that holds a space, and a chain of two argv.
\* The enum is untagged and Single is tried first, so an empty array in the
\* file is Single with an empty argv, never an empty chain.
RunCmds ==
    {Single(<<>>),
     Single(<< <<"a">> >>),
     Single(<< <<"a">>, <<"b">> >>),
     Single(<< <<"a", " ", "b">> >>),
     Chained(<< << <<"a">> >>, << <<"b">> >> >>)}

\* CustomCommand, with the fields the registry is built from.
CustomCommands ==
    [label : Labels, url_endpoint : {None} \cup {Some(e) : e \in UrlEndpoints},
     run_cmd : RunCmds, stdin_allow : BOOLEAN, enabled : BOOLEAN]

CommandLists == UNION {[1..n -> CustomCommands] : n \in 0..MaxCommands}

\* SingleOrChainedCommands::commands (and take_commands).
Commands(run_cmd) == IF run_cmd.tag = "Single" THEN <<run_cmd.cmd>> ELSE run_cmd.cmds

\* [String]::join.
RECURSIVE Join(_, _)
Join(strs, sep) ==
    IF Len(strs) = 0 THEN <<>>
    ELSE IF Len(strs) = 1 THEN strs[1]
    ELSE strs[1] \o sep \o Join(Tail(strs), sep)

\* SingleOrChainedCommands::as_string.
as_string(run_cmd) ==
    LET cmds == Commands(run_cmd)
    IN  Join([i \in 1..Len(cmds) |-> Join(cmds[i], <<" ">>)], <<" ", "|", " ">>)

\* Blake2b512 in hex, taken to be collision-free: the digest determines its
\* input.
hash_string(s) == <<"#">> \o s

endpoint_from_custom_command(cmd) ==
    IF cmd.url_endpoint # None THEN cmd.url_endpoint[1]
    ELSE hash_string(cmd.label \o as_string(cmd.run_cmd))

\* impl From<CustomCommand> for RoutableCommand.
RoutableCommandFrom(cmd) ==
    [label |-> cmd.label, url_endpoint |-> endpoint_from_custom_command(cmd),
     run_cmd |-> Commands(cmd.run_cmd), stdin_allow |-> cmd.stdin_allow]

\* validate_commands_list without the enabled filters.
validate_commands_list_all(cmds) ==
    LET seen == 1..Len(cmds)
    IN  /\ \A i, j \in seen :
               i # j => Commands(cmds[i].run_cmd) # Commands(cmds[j].run_cmd)
        /\ \A i, j \in seen :
               (i # j /\ cmds[i].url_endpoint # None /\ cmds[j].url_endpoint # None)
                   => cmds[i].url_endpoint # cmds[j].url_endpoint

\* validate_commands_list: among the enabled definitions no two have the same
\* commands and no two have the same explicit endpoint.
validate_commands_list(cmds) ==
    LET seen == {i \in 1..Len(cmds) : cmds[i].enabled}
    IN  /\ \A i, j \in seen :
               i # j => Commands(cmds[i].run_cmd) # Commands(cmds[j].run_cmd)
        /\ \A i, j \in seen :
               (i # j /\ cmds[i].url_endpoint # None /\ cmds[j].url_endpoint # None)
                   => cmds[i].url_endpoint # cmds[j].url_endpoint

\* LiveExecutionBackend::new: the routables collected into a BTreeMap keyed by
\* endpoint; of two entries with one key the later one stays.
CustomCommandsRoutables(cmds) ==
    LET rs == [i \in 1..Len(cmds) |-> RoutableCommandFrom(cmds[i])]
        At(e) == {i \in 1..Len(cmds) : rs[i].url_endpoint = e}
        Latest(e) == CHOOSE i \in At(e) : \A j \in At(e) : j <= i
    IN  [e \in {rs[i].url_endpoint : i \in 1..Len(cmds)} |-> rs[Latest(e)]]

\* LiveExecutionBackend::custom_cmds_list: the public information of every
\* entry of the registry.
custom_cmds_list(routables) ==
    {[label |-> routables[e].label, endpoint |-> routables[e].url_endpoint,
      stdin_allow |-> routables[e].stdin_allow] : e \in DOMAIN routables}

\* What custom_cmd_call can get from chain_commands: an empty chain is
\* refused, any other chain is run and yields a RunCommandOutput; the flag tells
\* whether its error_code is 0 (it is 253 when the first argv is empty).
ChainCommandsResults(run_cmd) ==
    IF run_cmd = <<>> THEN {Res("NoCommandsProvided", FALSE)}
    ELSE IF run_cmd[1] = <<>> THEN {Res("RunCommandOutput", FALSE)}
    ELSE {Res("RunCommandOutput", ok) : ok \in BOOLEAN}

\* stdin is the text written to the stdin of the chain's first process.
CmdCall(endpoint, initial_stdin_input, res, tool, stdin) ==
    [op |-> "custom_cmd_call", endpoint |-> endpoint,
     initial_stdin_input |-> initial_stdin_input, res |-> res, tool |-> tool,
     stdin |-> stdin]

\* LiveExecutionBackend::custom_cmd_call: get(endpoint).unwrap() panics for an
\* endpoint that is not a key, else the command's chain is run and its result
\* passed on.
LiveCustomCmdCall(routables, endpoint, initial_stdin_input, chain_result) ==
    IF endpoint \notin DOMAIN routables
    THEN [res |-> Res("panic", FALSE), tool |-> <<>>, stdin |-> None]
    ELSE LET run_cmd == routables[endpoint].run_cmd
         IN  [res |-> chain_result, tool |-> <<"chain_commands">>,
              stdin |-> IF run_cmd # <<>> /\ run_cmd[1] # <<>>
                        THEN initial_stdin_input ELSE None]

\* ApiServerConfig::from_str: the file is accepted when its command list
\* validates, else the server does not start.
ApiServerConfigFromStr ==
    /\ backend = "config"
    /\ backend' = IF validate_commands_list(custom_commands) THEN "loaded" ELSE "rejected"
    /\ UNCHANGED <<inner, zfs, config, call, pre, custom_commands,
                   custom_commands_routables, tasks>>
    /\ UNCHANGED pvars

LiveExecutionBackendNew ==
    /\ backend = "loaded"
    /\ backend' = "live"
    /\ custom_commands_routables' = CustomCommandsRoutables(custom_commands)
    /\ UNCHANGED <<inner, zfs, config, call, pre, custom_commands, tasks>>
    /\ UNCHANGED pvars

\* A caller may name any endpoint: a registered one, or one that is not.
CustomCmdCall ==
    /\ backend = "live"
    /\ \E endpoint \in DOMAIN custom_commands_routables \cup UrlEndpoints \cup {<<"u">>},
          initial_stdin_input \in {None, Some(<<"a">>)} :
          \E chain_result \in
                 IF endpoint \in DOMAIN custom_commands_routables
                 THEN ChainCommandsResults(custom_commands_routables[endpoint].run_cmd)
                 ELSE {Res("none", FALSE)} :
              LET out == LiveCustomCmdCall(custom_commands_routables, endpoint,
                                           initial_stdin_input,
                                           chain_result)
              IN  call' = CmdCall(endpoint, initial_stdin_input, out.res, out.tool,
                                  out.stdin)
    /\ UNCHANGED <<backend, inner, zfs, config, pre, custom_commands,
                   custom_commands_routables, tasks>>
    /\ UNCHANGED pvars

\* ------------------------------------------- custom command specification
InitCommands ==
    /\ backend = "config"
    /\ inner = NoMock
    /\ zfs = NoZfs
    /\ config = NoConfig
    /\ call = NoCall
    /\ pre = <<>>
    /\ custom_commands \in CommandLists
    /\ custom_commands_routables = <<>>
    /\ tasks = <<>>
    /\ NoProcess

NextCommands ==
    \/ ApiServerConfigFromStr
    \/ LiveExecutionBackendNew
    \/ CustomCmdCall

SpecCommands == InitCommands /\ [][NextCommands]_vars

\* ------------------------------------------------------ concurrent callers
\* NumCallers requests are served at once, each by its own task, all on one
\* dataset: by the mock (one mutex around its state), by the handlers of
\* webserver/src/lib.rs, which run the zfs tool's queries and commands one
\* after the other with no lock around them, or by the handlers of
\* webserver-lib (custom commands, and dataset calls under the state lock).
NumCallers == 2

Callers == 1..NumCallers
SharedDataset == CHOOSE n \in Names : \A m \in Names : n <= m

\* guard tells whether the task holds the MutexGuard of the mock's state.
NoTask ==
    [pc |-> "idle", op |-> "none", dataset_name |-> 0, password |-> 0,
     res |-> Res("none", FALSE), guard |-> FALSE]

Task(op, dataset_name, password) ==
    [pc |-> "start", op |-> op, dataset_name |-> dataset_name,
     password |-> password, res |-> Res("none", FALSE), guard |-> FALSE]

\* zfs unload-key: refused for a mounted (busy) dataset and without a key.
zfs_unload_key(z, dataset_name, tool_ok) ==
    IF tool_ok /\ z[dataset_name].key_loaded /\ ~z[dataset_name].is_mounted
    THEN [ok |-> TRUE, zfs |-> [z EXCEPT ![dataset_name].key_loaded = FALSE]]
    ELSE [ok |-> FALSE, zfs |-> z]

\* zfs unmount: refused for a dataset that is not mounted.
zfs_unmount_dataset(z, dataset_name, tool_ok) ==
    IF tool_ok /\ z[dataset_name].is_mounted
    THEN [ok |-> TRUE, zfs |-> [z EXCEPT ![dataset_name].is_mounted = FALSE]]
    ELSE [ok |-> FALSE, zfs |-> z]

\* One tool invocation of a handler: the task and the tool's state afterwards.
Step(t, z) == [task |-> t, zfs |-> z]
Done(t, res) == [t EXCEPT !.pc = "done", !.res = res]
NotFound(t, z) == Step(Done(t, Res("DatasetNotFound", FALSE)), z)
Replied(t, r, res) == Step(Done(t, IF r.ok THEN res ELSE Res("Zfs", FALSE)), r.zfs)

\* The handlers of webserver/src/lib.rs, one tool invocation at a time; the
\* tool itself is taken not to fail on its own.
mount_dataset(t, z) ==
    IF t.pc = "start"
    THEN IF zfs_is_dataset_mounted(z, t.dataset_name) = <<>> THEN NotFound(t, z)
         ELSE IF zfs_is_dataset_mounted(z, t.dataset_name)[1]
         THEN Step(Done(t, Res("DatasetMountedResponse", TRUE)), z)
         ELSE Step([t EXCEPT !.pc = "key"], z)
    ELSE IF t.pc = "key"
    THEN IF zfs_is_key_loaded(z, t.dataset_name) = <<>> THEN NotFound(t, z)
         ELSE IF ~zfs_is_key_loaded(z, t.dataset_name)[1]
         THEN Step(Done(t, Res("KeyNotLoadedForDataset", FALSE)), z)
         ELSE Step([t EXCEPT !.pc = "act"], z)
    ELSE Replied(t, zfs_mount_dataset(z, t.dataset_name, TRUE),
                 Res("DatasetMountedResponse", TRUE))

unmount_dataset(t, z) ==
    IF t.pc = "start"
    THEN IF zfs_is_dataset_mounted(z, t.dataset_name) = <<>> THEN NotFound(t, z)
         ELSE IF ~zfs_is_dataset_mounted(z, t.dataset_name)[1]
         THEN Step(Done(t, Res("DatasetMountedResponse", FALSE)), z)
         ELSE Step([t EXCEPT !.pc = "act"], z)
    ELSE Replied(t, zfs_unmount_dataset(z, t.dataset_name, TRUE),
                 Res("DatasetMountedResponse", FALSE))

load_key(t, z) ==
    IF t.pc = "start"
    THEN IF zfs_is_key_loaded(z, t.dataset_name) = <<>> THEN NotFound(t, z)
         ELSE IF zfs_is_key_loaded(z, t.dataset_name)[1]
         THEN Step(Done(t, Res("KeyLoadedResponse", TRUE)), z)
         ELSE Step([t EXCEPT !.pc = "act"], z)
    ELSE Replied(t, zfs_load_key(z, t.dataset_name, t.password, TRUE),
                 Res("KeyLoadedResponse", TRUE))

unload_key(t, z) ==
    IF t.pc = "start"
    THEN IF zfs_is_key_loaded(z, t.dataset_name) = <<>> THEN NotFound(t, z)
         ELSE IF ~zfs_is_key_loaded(z, t.dataset_name)[1]
         THEN Step(Done(t, Res("KeyLoadedResponse", FALSE)), z)
         ELSE Step([t EXCEPT !.pc = "act"], z)
    ELSE Replied(t, zfs_unload_key(z, t.dataset_name, TRUE),
                 Res("KeyLoadedResponse", FALSE))

HandlerStep(t, z) ==
    IF t.op = "mount_dataset" THEN mount_dataset(t, z)
    ELSE IF t.op = "unmount_dataset" THEN unmount_dataset(t, z)
    ELSE IF t.op = "load_key" THEN load_key(t, z)
    ELSE unload_key(t, z)

\* An ApiMock operation, run under the mutex.
MockRun(t, in) ==
    IF t.op = "mount_dataset" THEN MockMountDataset(in, t.dataset_name)
    ELSE IF t.op = "unmount_dataset" THEN MockUnmountDataset(in, t.dataset_name)
    ELSE IF t.op = "load_key" THEN MockLoadKey(in, t.dataset_name, t.password)
    ELSE MockUnloadKey(in, t.dataset_name)

\* A custom command's handler that would take the state lock as the dataset
\* handlers do.
route_handler_from_command_locked(t, z, chain_result) ==
    IF t.pc = "start" THEN Step([t EXCEPT !.pc = "chain", !.guard = TRUE], z)
    ELSE Step([Done(t, chain_result) EXCEPT !.guard = FALSE], z)

\* route_handler_from_command: the state is not locked; the handler awaits
\* chain_commands (pc "chain": spawn, stdin write, drain, wait, for as long as
\* the children take) and replies with its result.
route_handler_from_command(t, z, chain_result) ==
    IF t.pc = "start" THEN Step([t EXCEPT !.pc = "chain"], z)
    ELSE Step(Done(t, chain_result), z)

\* mount_dataset of zfs.rs: the guard of state.lock().await lives to the end of
\* the handler, which checks the configuration and runs the zfs tool under it.
ZfsMountDataset(t, z, cfg) ==
    IF t.pc = "start" THEN Step([t EXCEPT !.pc = "locked", !.guard = TRUE], z)
    ELSE LET out == LiveMountDataset(cfg, z, t.dataset_name, TRUE)
         IN  Step([Done(t, out.res) EXCEPT !.guard = FALSE], out.zfs)

ServerStep(t, z, cfg, chain_result) ==
    IF t.op = "custom_command" THEN route_handler_from_command(t, z, chain_result)
    ELSE ZfsMountDataset(t, z, cfg)

\* The requests a backend is sent: mutating calls on the shared dataset, and
\* for the server of webserver-lib a custom command or a mount.
Requests ==
    IF backend = "server"
    THEN {Task("custom_command", 0, 0), Task("zfs_mount_dataset", SharedDataset, 0)}
    ELSE {Task("load_key", SharedDataset, p) : p \in Pass}
            \cup {Task(op, SharedDataset, 0) :
                      op \in {"mount_dataset", "unmount_dataset", "unload_key"}}

\* A request arrives: its task starts.
TaskBegin ==
    /\ \E c \in Callers :
           /\ tasks[c].pc = "idle"
           /\ \E t \in Requests : tasks' = [tasks EXCEPT ![c] = t]
    /\ UNCHANGED <<backend, inner, zfs, config, call, pre, custom_commands,
                   custom_commands_routables>>
    /\ UNCHANGED pvars

\* An ApiMock operation that would take the mutex before its wait.
MockEnterLockFirst(t) ==
    IF t.pc = "start" THEN [t EXCEPT !.pc = "woken", !.guard = TRUE]
    ELSE [t EXCEPT !.pc = "locked"]

\* The head of every ApiMock operation: sleep_for_dramatic_effect().await
\* ends, then self.inner.lock() is taken.
MockEnter(t) ==
    IF t.pc = "start" THEN [t EXCEPT !.pc = "woken"]
    ELSE [t EXCEPT !.pc = "locked", !.guard = TRUE]

\* The mutex is given to one task at a time.
MockTaskEnterBy(c) ==
    /\ backend = "mock"
    /\ tasks[c].pc \in {"start", "woken"}
    /\ LET t == MockEnter(tasks[c])
       IN  /\ (t.guard /\ ~tasks[c].guard) => \A d \in Callers : ~tasks[d].guard
           /\ tasks' = [tasks EXCEPT ![c] = t]
    /\ UNCHANGED <<backend, inner, zfs, config, call, pre, custom_commands,
                   custom_commands_routables>>
    /\ UNCHANGED pvars

MockTaskEnter == \E c \in Callers : MockTaskEnterBy(c)

\* Under the mutex the task runs the whole operation with no suspension
\* point, and the guard is dropped at the return.
MockTaskRun ==
    /\ backend = "mock"
    /\ \E c \in Callers :
           /\ tasks[c].pc = "locked"
           /\ LET out == MockRun(tasks[c], inner)
              IN  /\ inner' = out.inner
                  /\ tasks' = [tasks EXCEPT ![c] =
                                   [Done(tasks[c], out.res) EXCEPT !.guard = FALSE]]
    /\ UNCHANGED <<backend, zfs, config, call, pre, custom_commands,
                   custom_commands_routables>>
    /\ UNCHANGED pvars

\* A handler's next tool invocation.
HandlerTaskStep ==
    /\ backend = "webserver"
    /\ \E c \in Callers :
           /\ tasks[c].pc \in {"start", "key", "act"}
           /\ LET s == HandlerStep(tasks[c], zfs)
              IN  /\ zfs' = s.zfs
                  /\ tasks' = [tasks EXCEPT ![c] = s.task]
    /\ UNCHANGED <<backend, inner, config, call, pre, custom_commands,
                   custom_commands_routables>>
    /\ UNCHANGED pvars

\* A handler of webserver-lib goes on by one step; the state lock is given to
\* one task at a time.
ServerTaskStepBy(c) ==
    /\ backend = "server"
    /\ tasks[c].pc \in {"start", "chain", "locked"}
    /\ \E ok \in BOOLEAN :
           LET s == ServerStep(tasks[c], zfs, config, Res("RunCommandOutput", ok))
           IN  /\ (s.task.guard /\ ~tasks[c].guard) => \A d \in Callers : ~tasks[d].guard
               /\ zfs' = s.zfs
               /\ tasks' = [tasks EXCEPT ![c] = s.task]
    /\ UNCHANGED <<backend, inner, config, call, pre, custom_commands,
                   custom_commands_routables>>
    /\ UNCHANGED pvars

ServerTaskStep == \E c \in Callers : ServerTaskStepBy(c)

\* pre keeps the datasets as they were before any of the calls.
InitConcurrent ==
    /\ \/ /\ backend = "mock"
          /\ \E dp \in PartialFns({SharedDataset}, Pass),
                erring \in SUBSET {SharedDataset} : inner = ApiMockNew(dp, erring)
          /\ zfs = NoZfs
          /\ pre = inner
          /\ config = NoConfig
       \/ /\ backend = "webserver"
          /\ inner = NoMock
          /\ zfs \in PartialFns({SharedDataset}, ZfsDatasetStates)
          /\ pre = zfs
          /\ config = NoConfig
       \/ /\ backend = "server"
          /\ inner = NoMock
          /\ zfs \in PartialFns({SharedDataset}, ZfsDatasetStates)
          /\ pre = zfs
          /\ config \in [zfs_enabled : BOOLEAN,
                         blacklisted_zfs_datasets : SUBSET {SharedDataset}]
    /\ call = NoCall
    /\ custom_commands = <<>>
    /\ custom_commands_routables = <<>>
    /\ tasks = [c \in Callers |-> NoTask]
    /\ NoProcess

NextConcurrent ==
    \/ TaskBegin
    \/ MockTaskEnter
    \/ MockTaskRun
    \/ HandlerTaskStep
    \/ ServerTaskStep

SpecConcurrent == InitConcurrent /\ [][NextConcurrent]_vars

\* ------------------------------------------------------- error responses
\* The variants of the live backend's Error.
ErrorKinds ==
    {"Zfs", "DatasetNotFound", "KeyNotLoadedForDataset", "PassphraseNotProvided",
     "NonPrintablePassphrase", "NoCommandsProvided", "ZfsDisabled",
     "BlacklistedDataset", "RegisteredCmdMissing"}

\* IntoResponse for Error: the status code of the response; the body is the
\* message text.
into_response(kind) ==
    CASE kind = "Zfs" -> 500
      [] kind = "DatasetNotFound" -> 404
      [] kind = "KeyNotLoadedForDataset" -> 405
      [] kind = "PassphraseNotProvided" -> 401
      [] kind = "NonPrintablePassphrase" -> 400
      [] kind = "NoCommandsProvided" -> 500
      [] kind = "ZfsDisabled" -> 401
      [] kind = "BlacklistedDataset" -> 401
      [] kind = "RegisteredCmdMissing" -> 500

\* ------------------------------------------------- claims on the backends
\* The datasets the backend in use holds, before and after the last call.
PreDs == IF backend = "mock" THEN pre.state ELSE pre
CurDs == IF backend = "mock" THEN inner.state ELSE zfs

Flags(d) == <<d.key_loaded, d.is_mounted>>

\* The last call was op on a dataset that existed when the call began.
CalledOnExisting(op) ==
    /\ call.op = op
    /\ call.dataset_name \in DOMAIN PreDs

\* The gates in front of the state machine: fault injection (mock), the
\* disable switch and the blacklist (live).
Ungated ==
    IF backend = "mock"
    THEN call.dataset_name \notin inner.erring_datasets
    ELSE zfs_enabled(config) /\ ~zfs_dataset_blacklisted(config, call.dataset_name)

MountToolInvoked == \E i \in DOMAIN call.tool : call.tool[i] = "zfs_mount_dataset"

\* C1: in the mock backend every dataset satisfies is_mounted => key_loaded
\* after any sequence of load_key, mount_dataset, unload_key, unmount_dataset.
C1_MockMountedImpliesKeyLoaded ==
    backend = "mock" =>
        \A n \in DOMAIN inner.state :
            inner.state[n].is_mounted => inner.state[n].key_loaded

\* C2: mount_dataset on an existing dataset whose key is not loaded fails with
\* KeyNotLoaded and leaves the dataset unmounted, in the live backend (without
\* invoking the mount tool) and in the mock backend.  Stated for calls that pass
\* the gates, where the state machine rule is what decides the result.
C2_MountLockedFailsKeyNotLoaded ==
    (/\ CalledOnExisting("mount_dataset")
     /\ Ungated
     /\ ~PreDs[call.dataset_name].key_loaded)
    => /\ call.res.kind = "KeyNotLoadedForDataset"
       /\ ~CurDs[call.dataset_name].is_mounted
       /\ ~MountToolInvoked

\* C3 as stated: mock unload_key on an existing mounted dataset fails with
\* CannotUnlockKeyForMountDataset and changes nothing; on an existing unmounted
\* dataset it sets key_loaded = false and succeeds.
C3_Original ==
    (backend = "mock" /\ CalledOnExisting("unload_key")) =>
        IF PreDs[call.dataset_name].is_mounted
        THEN /\ call.res = Res("CannotUnlockKeyForMountDataset", FALSE)
             /\ inner = pre
        ELSE /\ call.res = Res("KeyLoadedResponse", FALSE)
             /\ ~CurDs[call.dataset_name].key_loaded

\* C3 amended: as C3, the unmounted case for a dataset that is not listed in
\* erring_datasets; for a listed one unload_key returns SimulatedError and
\* changes nothing.
C3_UnloadKeyGuard ==
    (backend = "mock" /\ CalledOnExisting("unload_key")) =>
        IF PreDs[call.dataset_name].is_mounted
        THEN /\ call.res = Res("CannotUnlockKeyForMountDataset", FALSE)
             /\ inner = pre
        ELSE IF Ungated
        THEN /\ call.res = Res("KeyLoadedResponse", FALSE)
             /\ inner = [pre EXCEPT !.state[call.dataset_name].key_loaded = FALSE]
        ELSE /\ call.res = Res("SimulatedError", FALSE)
             /\ inner = pre

C3_Witness ==
    /\ backend = "mock"
    /\ CalledOnExisting("unload_key")
    /\ PreDs[call.dataset_name].is_mounted
    /\ PreDs[call.dataset_name].key_loaded
    /\ call.res.kind = "CannotUnlockKeyForMountDataset"

\* C4 as stated: mock load_key on an existing dataset whose key is not loaded
\* succeeds and sets key_loaded (is_mounted unchanged) exactly when the
\* passphrase is the dataset's; otherwise it returns InvalidEncryptionPassword
\* and changes nothing.
C4_Original ==
    (/\ backend = "mock"
     /\ CalledOnExisting("load_key")
     /\ ~PreDs[call.dataset_name].key_loaded)
    => IF call.password = PreDs[call.dataset_name].unlock_password
       THEN /\ call.res = Res("KeyLoadedResponse", TRUE)
            /\ inner = [pre EXCEPT !.state[call.dataset_name].key_loaded = TRUE]
       ELSE /\ call.res = Res("InvalidEncryptionPassword", FALSE)
            /\ inner = pre

\* C4 amended: as C4 for a dataset that is not listed in erring_datasets; for
\* a listed one load_key returns SimulatedError and changes nothing, whatever
\* the passphrase.
C4_LoadKeyLocked ==
    (/\ backend = "mock"
     /\ CalledOnExisting("load_key")
     /\ ~PreDs[call.dataset_name].key_loaded)
    => IF ~Ungated
       THEN /\ call.res = Res("SimulatedError", FALSE)
            /\ inner = pre
       ELSE IF call.password = PreDs[call.dataset_name].unlock_password
       THEN /\ call.res = Res("KeyLoadedResponse", TRUE)
            /\ inner = [pre EXCEPT !.state[call.dataset_name].key_loaded = TRUE]
       ELSE /\ call.res = Res("InvalidEncryptionPassword", FALSE)
            /\ inner = pre

C4_Witness ==
    /\ backend = "mock"
    /\ CalledOnExisting("load_key")
    /\ Ungated
    /\ ~PreDs[call.dataset_name].key_loaded
    /\ call.password # PreDs[call.dataset_name].unlock_password
    /\ call.res.kind = "InvalidEncryptionPassword"
    /\ \E n \in DOMAIN inner.state : inner.state[n].key_loaded

\* C5: load_key on a dataset whose key is already loaded returns success with
\* key_loaded = true and changes no state, for every passphrase, in both
\* backends.  Stated for calls that pass the gates.
C5_LoadKeyLoadedIsNoOp ==
    (/\ CalledOnExisting("load_key")
     /\ Ungated
     /\ PreDs[call.dataset_name].key_loaded)
    => /\ call.res = Res("KeyLoadedResponse", TRUE)
       /\ CurDs = PreDs

CalledDisabled == backend = "live" /\ ~zfs_enabled(config) /\ call.op # "none"

\* C16 as stated: with zfs_enabled = false every dataset operation of the live
\* backend fails with ZfsDisabled (dataset_state, load_key and mount_dataset,
\* for every name), the all-datasets read reports an empty set, and none of
\* them invokes the zfs tool.
C16_Original ==
    CalledDisabled =>
        /\ call.tool = <<>>
        /\ zfs = pre
        /\ IF call.op = "encrypted_datasets_state"
           THEN call.states = <<>>
           ELSE call.res = Res("ZfsDisabled", FALSE)

\* C16 amended: as C16, but dataset_state answers DatasetNotFound for every
\* name, being a lookup in the empty set; load_key and mount_dataset fail with
\* ZfsDisabled.
C16_DisabledTouchesNothing ==
    CalledDisabled =>
        /\ call.tool = <<>>
        /\ zfs = pre
        /\ IF call.op = "encrypted_datasets_state"
           THEN call.states = <<>>
           ELSE IF call.op = "encrypted_dataset_state"
           THEN call.res = Res("DatasetNotFound", FALSE)
           ELSE call.res = Res("ZfsDisabled", FALSE)

\* A disabled backend asked for the state of a dataset the tool holds with
\* its key loaded.
C16_Witness ==
    /\ CalledDisabled
    /\ call.op = "encrypted_dataset_state"
    /\ call.dataset_name \in DOMAIN zfs
    /\ zfs[call.dataset_name].key_loaded
    /\ call.res.kind = "DatasetNotFound"

\* The last call was made to a live backend and named a blacklisted dataset.
CalledBlacklisted ==
    /\ backend = "live"
    /\ call.op \in {"encrypted_dataset_state", "load_key", "mount_dataset"}
    /\ zfs_dataset_blacklisted(config, call.dataset_name)

\* No blacklisted name is in the result of the all-datasets read.
ListingOmitsBlacklisted ==
    (backend = "live" /\ call.op = "encrypted_datasets_state") =>
        \A n \in DOMAIN call.states : ~zfs_dataset_blacklisted(config, n)

C18_FaultInjection ==
    (backend = "mock" /\ call.op # "none") =>
        IF call.dataset_name \in pre.erring_datasets
        THEN /\ call.res = Res("SimulatedError", FALSE)
             /\ inner = pre
        ELSE /\ call.res.kind # "SimulatedError"
             /\ inner.erring_datasets = pre.erring_datasets

\* unmount_dataset on a listed dataset the mock holds, after another dataset
\* was mounted.
C18_Witness ==
    /\ backend = "mock"
    /\ call.op = "unmount_dataset"
    /\ call.dataset_name \in inner.erring_datasets
    /\ call.dataset_name \in DOMAIN inner.state
    /\ call.res.kind = "SimulatedError"
    /\ \E n \in DOMAIN inner.state : inner.state[n].is_mounted

\* C24: the status of the response to a failed call of the live backend
\* tells its error kind apart from every other error kind.
C24_ErrorKindsDistinguishable ==
    (backend = "live" /\ call.res.kind \in ErrorKinds) =>
        \A kind \in ErrorKinds :
            kind # call.res.kind => into_response(kind) # into_response(call.res.kind)

\* -------------------------------------------- claims on the command engine
Last(seq) == seq[Len(seq)]

FailedRun(k) == inv[k].res.kind = "Ok" /\ inv[k].res.out.error_code # 0

\* C7: chain_commands stops at the first invocation that exits non-zero: the
\* invocations after it are never spawned and the chain's result is that
\* invocation's captured stdout, stderr and exit code.
C7_ChainShortCircuit ==
    \A k \in DOMAIN inv :
        FailedRun(k) =>
            /\ Len(inv) = k
            /\ chain.pc = "done"
            /\ chain.ret = Some(ChainOk(inv[k].res.out))
            /\ child = NoChild

\* A chain whose failing invocation captured output and left a command unrun.
C7_Witness ==
    /\ chain.pc = "done"
    /\ Len(inv) < Len(commands)
    /\ FailedRun(Len(inv))
    /\ Last(inv).res.out.stdout # <<>>
    /\ Last(inv).res.out.stderr # <<>>
    /\ chain.ret = Some(ChainOk(Last(inv).res.out))

\* C8: the first invocation is given the caller's stdin (or none), every later
\* invocation is given exactly the stdout captured from the one before it, and
\* what run_command writes into the child's stdin is that text and a newline.
C8_StdinPiping ==
    /\ inv # <<>> => inv[1].stdin = initial_stdin
    /\ \A k \in 2..Len(inv) :
           /\ inv[k - 1].res.kind = "Ok"
           /\ inv[k].stdin = Some(inv[k - 1].res.out.stdout)
    /\ rc.pc # "idle" =>
           rc.written \o rc.wbuf =
               IF Last(inv).stdin = None THEN <<>>
               ELSE StdinData(Last(inv).stdin[1])

\* The second invocation has been written the first one's stdout, which is
\* not the caller's text.
C8_Witness ==
    /\ Len(inv) = 2
    /\ initial_stdin # None
    /\ inv[2].stdin # initial_stdin
    /\ inv[1].res.out.stdout # <<>>
    /\ rc.pc = "drain"
    /\ rc.written = StdinData(inv[1].res.out.stdout)

\* C9: invocation k+1 is not spawned before invocation k's stdout and stderr
\* reached end-of-stream and its exit status was collected.
C9_StrictSequencing ==
    /\ \A k \in 1..(Len(inv) - 1) :
           inv[k].spawned =>
               inv[k].out_eof /\ inv[k].err_eof /\ inv[k].collected
    /\ chain.pc = "call" => rc = NoRc /\ child = NoChild

\* A second process is running after a first one that wrote to both streams.
C9_Witness ==
    /\ Len(inv) = 2
    /\ inv[2].spawned
    /\ child.state = "running"
    /\ inv[1].spawned /\ inv[1].collected
    /\ inv[1].res.out.stdout # <<>>
    /\ inv[1].res.out.stderr # <<>>

\* The child cannot take its next step because the pipe it writes to is full.
ChildBlockedOnOutput ==
    /\ child.state = "running"
    /\ \/ NextOp = "o" /\ Len(child.pout) >= PipeCap
       \/ NextOp = "e" /\ Len(child.perr) >= PipeCap
       \/ NextOp = "c" /\ child.buf # <<>> /\ Len(child.pout) >= PipeCap

\* run_command, draining, has a read that can complete.
DrainCanRead ==
    \/ ~rc.out_eof /\ (child.pout # <<>> \/ child.state = "exited")
    \/ /\ ~rc.err_eof
       /\ StderrPolled(impl, rc.out_eof)
       /\ (child.perr # <<>> \/ child.state = "exited")

\* C10: while run_command drains, a child blocked on a full stdout or stderr
\* pipe is always unblocked by a read run_command can make, in every
\* run_command of the repository.
C10_NoDrainDeadlock ==
    (rc.pc = "drain" /\ ChildBlockedOnOutput) => DrainCanRead

\* The stdin data run_command owes the child of the invocation in progress.
StdinOwed == IF Last(inv).stdin = None THEN <<>> ELSE StdinData(Last(inv).stdin[1])

\* C11: once run_command drains the output it has written exactly the stdin
\* text and one newline (nothing when no stdin was supplied) and has closed
\* the child's stdin, in every run_command of the repository; a child that
\* copies its stdin to stdout is captured with exactly that data as stdout.
C11_StdinWrittenThenClosed ==
    /\ rc.pc \in {"drain", "wait"} =>
           /\ ~rc.stdin_open
           /\ rc.wbuf = <<>>
           /\ rc.written = StdinOwed
    /\ (rc.pc = "wait" /\ child.script = <<"c">>) => rc.stdout_string = StdinOwed

\* The step in which run_command records an Ok result for the invocation in
\* progress.
RecordsOutput ==
    /\ inv # <<>>
    /\ Len(inv') = Len(inv)
    /\ Last(inv).res.kind # "Ok"
    /\ Last(inv').res.kind = "Ok"

\* C12: run_command records the exit code only once both output streams
\* reached end-of-stream with nothing left in the pipes and the child has
\* exited; the code is 0 only for a child that exited with status 0, the
\* child's own code when it has one, and 255 for a child without exit code.
C12_ExitCodeAfterDrain ==
    [][RecordsOutput =>
          LET error_code == Last(inv').res.out.error_code
          IN  /\ rc.out_eof /\ rc.err_eof
              /\ child.pout = <<>> /\ child.perr = <<>>
              /\ child.state = "exited"
              /\ Last(inv').collected
              /\ (error_code = 0) <=> (child.status = <<0>>)
              /\ child.status # <<>> => error_code = child.status[1]
              /\ child.status = <<>> => error_code = 255]_vars

\* A child killed by a signal after writing to both streams was reported 255.
C12_Witness ==
    /\ inv # <<>>
    /\ Last(inv).collected
    /\ Last(inv).res.out.error_code = 255
    /\ Last(inv).res.out.stdout # <<>>
    /\ Last(inv).res.out.stderr # <<>>

\* run_command itself failed for invocation k: nothing to spawn, spawn failed,
\* or its own write to the child failed.
EngineFailure(k) == inv[k].res.kind = "Err"

\* C13: when run_command fails for an invocation of a non-empty chain,
\* chain_commands returns Ok with a RunCommandOutput of code 253, runs no later
\* invocation, and a chain result of code 253 is returned for such a failure
\* only, never for a code a child process reported.
C13_SpawnFailureCode ==
    /\ \A k \in DOMAIN inv :
           EngineFailure(k) =>
               /\ Len(inv) = k
               /\ chain.pc = "done"
               /\ chain.ret = Some(ChainOk(RunCommandOutput(<<>>, <<inv[k].res.err>>, 253)))
               /\ child = NoChild
    /\ (/\ chain.pc = "done"
        /\ commands # <<>>
        /\ chain.ret[1].out.error_code = 253)
       => EngineFailure(Len(inv))

\* chain_commands was called on a one-element chain and has returned.
SingleChainDone == Len(commands) = 1 /\ chain.pc = "done"

\* C14 as stated: chain_commands on the one-element chain [argv] has the
\* outcome of run_command(argv, stdin): the same stdout, stderr and exit code,
\* or the same failure.
C14_Original ==
    SingleChainDone =>
        /\ Len(inv) = 1
        /\ inv[1].stdin = initial_stdin
        /\ chain.ret = IF inv[1].res.kind = "Ok"
                       THEN Some(ChainOk(inv[1].res.out))
                       ELSE Some(ChainErr(inv[1].res.err))

\* C14 amended: chain_commands on [argv] calls run_command(argv, stdin) once
\* and returns its stdout, stderr and exit code when run_command returns an
\* output; when run_command fails with error e it returns Ok with empty
\* stdout, e's message as stderr and code 253, not the failure.
C14_SingleChainIsRunCommand ==
    SingleChainDone =>
        /\ Len(inv) = 1
        /\ inv[1].stdin = initial_stdin
        /\ chain.ret = IF inv[1].res.kind = "Ok"
                       THEN Some(ChainOk(inv[1].res.out))
                       ELSE Some(ChainOk(RunCommandOutput(<<>>, <<inv[1].res.err>>, 253)))

\* A one-element chain given stdin text whose child exited 0 with output.
C14_Witness ==
    /\ SingleChainDone
    /\ initial_stdin # None
    /\ inv[1].res.kind = "Ok"
    /\ inv[1].res.out.error_code = 0
    /\ inv[1].res.out.stdout # <<>>
    /\ chain.ret = Some(ChainOk(inv[1].res.out))

\* ------------------------------------------ claims on the custom commands
\* C15: custom_cmd_call with an endpoint that is not a key of the registry
\* returns the command-not-found error (RegisteredCmdMissing) as a value and
\* runs no command.
C15_UnknownEndpointIsError ==
    (/\ call.op = "custom_cmd_call"
     /\ call.endpoint \notin DOMAIN custom_commands_routables)
    => /\ call.res.kind = "RegisteredCmdMissing"
       /\ call.tool = <<>>

\* Two definitions of the loaded configuration that leave the endpoint to be
\* derived and carry the same label.
Derived(i, j) ==
    /\ custom_commands[i].url_endpoint = None
    /\ custom_commands[j].url_endpoint = None
    /\ custom_commands[i].label = custom_commands[j].label

\* C20: in the registry built from the configuration, two definitions with no
\* explicit endpoint and the same label derive the same endpoint when their
\* argv chains are identical, and different endpoints when their argv chains
\* differ (the hash being collision-free).
C20_EndpointDerivation ==
    backend = "live" =>
        \A i, j \in DOMAIN custom_commands :
            Derived(i, j) =>
                (Commands(custom_commands[i].run_cmd) = Commands(custom_commands[j].run_cmd)
                 <=> RoutableCommandFrom(custom_commands[i]).url_endpoint
                       = RoutableCommandFrom(custom_commands[j]).url_endpoint)

\* C21: in the registry built from an accepted configuration no two distinct
\* configured commands have the same endpoint: the registry holds one entry
\* for every configured command and none has been replaced by another.
C21_EndpointsUnique ==
    backend = "live" =>
        /\ \A i, j \in DOMAIN custom_commands :
               i # j => RoutableCommandFrom(custom_commands[i]).url_endpoint
                          # RoutableCommandFrom(custom_commands[j]).url_endpoint
        /\ \A i \in DOMAIN custom_commands :
               \E e \in DOMAIN custom_commands_routables :
                   custom_commands_routables[e] = RoutableCommandFrom(custom_commands[i])

\* C22: every command registered from an accepted configuration has a
\* non-empty command chain whose every argv is non-empty (an empty chain or an
\* empty argv is rejected when the configuration is loaded).
C22_ChainsNonEmpty ==
    backend = "live" =>
        \A e \in DOMAIN custom_commands_routables :
            LET run_cmd == custom_commands_routables[e].run_cmd
            IN  /\ run_cmd # <<>>
                /\ \A k \in DOMAIN run_cmd : run_cmd[k] # <<>>

\* Two commands of the file that the loader must not accept together.
Duplicates(i, j) ==
    /\ i # j
    /\ \/ Commands(custom_commands[i].run_cmd) = Commands(custom_commands[j].run_cmd)
       \/ /\ custom_commands[i].url_endpoint # None
          /\ custom_commands[i].url_endpoint = custom_commands[j].url_endpoint

EnabledDuplicates ==
    \E i, j \in DOMAIN custom_commands :
        /\ custom_commands[i].enabled
        /\ custom_commands[j].enabled
        /\ Duplicates(i, j)

\* C23: loading fails and yields no configuration exactly when two enabled
\* commands have the same explicit url_endpoint or the same argv chain;
\* disabled commands do not count as duplicates.
C23_DuplicatesRejected ==
    /\ backend = "rejected" => (EnabledDuplicates /\ custom_commands_routables = <<>>)
    /\ backend \in {"loaded", "live"} => ~EnabledDuplicates

\* A file has been accepted in which a disabled command repeats the explicit
\* endpoint of an enabled one.
C23_Witness ==
    /\ backend = "loaded"
    /\ \E i, j \in DOMAIN custom_commands :
           /\ custom_commands[i].enabled
           /\ ~custom_commands[j].enabled
           /\ Duplicates(i, j)
           /\ custom_commands[i].url_endpoint # None
           /\ custom_commands[i].url_endpoint = custom_commands[j].url_endpoint

\* C27: a command configured with stdin_allow = false is never given
\* caller-supplied text for the stdin of its processes, whatever stdin the
\* request carries.
C27_StdinOnlyWhenAllowed ==
    (/\ call.op = "custom_cmd_call"
     /\ call.endpoint \in DOMAIN custom_commands_routables
     /\ ~custom_commands_routables[call.endpoint].stdin_allow)
    => call.stdin = None

\* The configured commands with enabled = true that derive the endpoint e.
EnabledAt(e) ==
    {i \in DOMAIN custom_commands :
        /\ custom_commands[i].enabled
        /\ RoutableCommandFrom(custom_commands[i]).url_endpoint = e}

\* C28: a command configured with enabled = false is never registered: every
\* command that custom_cmds_list shows and every command that custom_cmd_call
\* runs is an enabled one, and the registry's entry at the endpoint of an
\* enabled command is an enabled command.
C28_DisabledNeverRegistered ==
    backend = "live" =>
        /\ \A info \in custom_cmds_list(custom_commands_routables) :
               EnabledAt(info.endpoint) # {}
        /\ \A e \in DOMAIN custom_commands_routables :
               \E i \in EnabledAt(e) :
                   custom_commands_routables[e] = RoutableCommandFrom(custom_commands[i])
        /\ (call.op = "custom_cmd_call" /\ call.tool # <<>>)
               => EnabledAt(call.endpoint) # {}

\* ------------------------------------------ claims on concurrent callers
\* The datasets the callers share.
Store == IF backend = "mock" THEN inner ELSE zfs

\* A call run on its own from its start to its reply.
RECURSIVE HandlerRun(_, _)
HandlerRun(t, z) ==
    IF t.pc = "done" THEN Step(t, z)
    ELSE LET s == HandlerStep(t, z) IN HandlerRun(s.task, s.zfs)

Alone(t, store) ==
    IF backend = "mock"
    THEN LET out == MockRun(t, store) IN [res |-> out.res, store |-> out.inner]
    ELSE LET s == HandlerRun([t EXCEPT !.pc = "start"], store)
         IN  [res |-> s.task.res, store |-> s.zfs]

\* The calls run one after the other in the given order of the callers.
RECURSIVE Sequential(_, _, _)
Sequential(order, store, results) ==
    IF order = <<>> THEN [store |-> store, results |-> results]
    ELSE LET r == Alone(tasks[Head(order)], store)
         IN  Sequential(Tail(order), r.store,
                        [results EXCEPT ![Head(order)] = r.res])

Orders == {o \in [Callers -> Callers] : \A i, j \in Callers : i # j => o[i] # o[j]}

\* What the handler at its command has checked still holds.
CheckHolds(t, z) ==
    IF t.op = "mount_dataset"
    THEN z[t.dataset_name].key_loaded /\ ~z[t.dataset_name].is_mounted
    ELSE IF t.op = "unmount_dataset" THEN z[t.dataset_name].is_mounted
    ELSE IF t.op = "load_key" THEN ~z[t.dataset_name].key_loaded
    ELSE z[t.dataset_name].key_loaded

\* C19: under any interleaving of concurrent load_key, mount_dataset,
\* unload_key and unmount_dataset calls on one dataset, once all calls have
\* replied their results and the dataset's state are those of the calls run
\* one after the other in some order, and no call is about to run its command
\* on a check that no longer holds.
C19_CallsAreAtomic ==
    /\ (backend \in {"mock", "webserver"} /\ \A c \in Callers : tasks[c].pc = "done") =>
           \E order \in Orders :
               LET seq == Sequential(order, pre, [c \in Callers |-> Res("none", FALSE)])
               IN  /\ seq.store = Store
                   /\ \A c \in Callers : seq.results[c] = tasks[c].res
    /\ \A c \in Callers : tasks[c].pc = "act" => CheckHolds(tasks[c], zfs)

\* C25: every mock operation finishes its wait before it takes the state
\* mutex and is never suspended while holding it, so while one caller's delay
\* is in flight another caller whose delay is over can take the mutex as soon
\* as no running operation holds it.
C25_MockSleepsOutsideMutex ==
    backend = "mock" =>
        /\ \A c \in Callers : tasks[c].guard => tasks[c].pc = "locked"
        /\ \A c, d \in Callers :
               (/\ c # d
                /\ tasks[c].pc = "start"
                /\ tasks[d].pc = "woken"
                /\ \A e \in Callers : tasks[e].pc # "locked")
               => ENABLED MockTaskEnterBy(d)

\* One caller runs its operation under the mutex while the other's delay is
\* in flight.
C25_Witness ==
    /\ backend = "mock"
    /\ \E c, d \in Callers :
           /\ tasks[c].pc = "start"
           /\ tasks[d].pc = "locked"
           /\ tasks[d].guard

\* C26: a request whose custom command chain is in flight does not hold the
\* lock of the shared server state, so whatever its children do, a dataset
\* request can take the lock as soon as no other dataset request holds it, and
\* another command execution can start.
C26_ChainRunsOutsideStateLock ==
    backend = "server" =>
        /\ \A c \in Callers : tasks[c].op = "custom_command" => ~tasks[c].guard
        /\ \A c, d \in Callers :
               (/\ c # d
                /\ tasks[c].op = "custom_command"
                /\ tasks[c].pc = "chain"
                /\ tasks[d].pc = "start"
                /\ \A e \in Callers : tasks[e].pc # "locked")
               => ENABLED ServerTaskStepBy(d)

\* A dataset request holds the state lock while a command chain is in flight.
C26_Witness ==
    /\ backend = "server"
    /\ \E c, d \in Callers :
           /\ tasks[c].op = "custom_command"
           /\ tasks[c].pc = "chain"
           /\ tasks[d].op = "zfs_mount_dataset"
           /\ tasks[d].pc = "locked"
           /\ tasks[d].guard

\* C29: with a child that reads its stdin to the end, run_command is never
\* stuck writing the stdin text into a full pipe while the child is stuck
\* writing to an output pipe that run_command does not yet read, so that it
\* returns in the end.
C29_NoWriteDeadlock ==
    ~(/\ rc.pc = "write"
      /\ rc.wbuf # <<>>
      /\ Len(child.pin) = PipeCap
      /\ \E k \in DOMAIN child.script : child.script[k] = "c"
      /\ ChildBlockedOnOutput)

\* The step in which run_command returns for the invocation in progress, made
\* with stdin text on a child that never reads its stdin.
ReturnsUnreadStdin ==
    /\ inv # <<>>
    /\ Len(inv') = Len(inv)
    /\ Last(inv).res.kind = "pending"
    /\ Last(inv').res.kind # "pending"
    /\ Last(inv).stdin # None
    /\ \A k \in DOMAIN child.script : child.script[k] # "c"

\* C30: when stdin text is supplied to a child that exits without reading its
\* stdin, run_command returns that child's captured output and exit code,
\* whether the child exits before or after the stdin write.
C30_ExitBeforeWriteHarmless ==
    [][ReturnsUnreadStdin =>
          /\ Last(inv').res.kind = "Ok"
          /\ Last(inv').res.out.error_code = ErrorCode(child.status)
          /\ Last(inv').res.out.stdout = SelectSeq(child.script, LAMBDA op : op = "o")
          /\ Last(inv').res.out.stderr = SelectSeq(child.script, LAMBDA op : op = "e")]_vars

====
